---- MODULE Spec2Model ----
(***************************************************************************)
(* Model of pycatan's synchronous bridge (environment.rs) between a caller *)
(* and the simulation thread, and of the observation encoder               *)
(* (py_catan_observation.rs).                                              *)
(*                                                                         *)
(* Spec       : SingleEnvironment / MultiEnvironment, any caller, faults.  *)
(* SpecProto  : the same with a caller that follows the protocol and an    *)
(*              engine that does not fault.                                *)
(* SpecSingle : SpecProto for SingleEnvironment, with the fairness of two  *)
(*              running threads.                                           *)
(* SpecEnc    : the observation encoder alone, on inputs built from the    *)
(*              empty state by a few unit changes.                         *)
(***************************************************************************)
EXTENDS Integers, Sequences, FiniteSets, TLC

\* ------------------------------------------------------------- bounds
MaxPlayers == 3
MaxOpponents == 1
MaxGames == 2
MaxDecisions == 2
MaxMisuse == 1
MaxVP == 1
MaxEncPlayers == 3
MaxEdits == 2
MaskLen == 2

VARIABLES
  \* configuration, fixed by new()
  kind,            \* "single" | "multi"
  players,         \* number of Bridge-controlled seats (PythonPlayer objects)
  opponents,       \* number of scripted Randomy seats (single only)
  include_hidden,  \* format.include_hidden
  \* simulation thread
  simPc,           \* "setup" | "advance" | "await" | "results" | "crashed"
  gameNo,          \* games started so far
  order,           \* players_order: position (1-based) -> player index
  turn,            \* single: 0 = the controlled seat is next, k > 0 = a scripted seat
  waiting,         \* index of the action receiver the thread is blocked on
  nDec,            \* decisions of controlled seats answered in this game
  finIdx,          \* position whose results() handler runs next
  \* channels (unbounded mpsc queues)
  actionQ,         \* [seat -> Seq(action message)]
  obsQ,            \* Seq(Option<(u8, PyCatanObservation)>)
  resultQ,         \* [seat -> Seq((u8, bool))], with the game and the sender
  poisonedObs,     \* the observation receiver's Mutex is poisoned
  poisonedRes,     \* seats whose result receiver's Mutex is poisoned
  \* caller thread
  callerPc,        \* "idle" | "start" | "play" | "result"
  resPlayer,       \* loop variable of MultiEnvironment::result
  winner,          \* local of MultiEnvironment::result
  vps,             \* local of MultiEnvironment::result
  lastRet,         \* what the last start()/play() returned
  lastResult,      \* what the last result() returned
  \* history
  proto,           \* the call the protocol expects next: "start" | "play" |
                   \* "result", or "any" after a failed call
  misuses,         \* calls issued so far that were not the expected one
  nEmitted,        \* decision points reached (= non-terminal observations sent)
  nReturned,       \* non-terminal observations returned to the caller
  nResults,        \* result() calls that returned a result
  consumed,        \* the last action taken by the thread and the decision it answered
  lastCall,        \* the last call issued by the caller
  \* observation encoder (SpecEnc)
  encIn,           \* the encoder's inputs: format, player, state, phase, mask
  encEdits,        \* how many unit changes built encIn from the empty state
  encDone,         \* new_array has run on encIn
  encOut           \* the PyCatanObservation it returned

config == <<kind, players, opponents, include_hidden,
            encIn, encEdits, encDone, encOut>>
simVars == <<simPc, gameNo, order, turn, waiting, nDec, finIdx>>
chanVars == <<actionQ, obsQ, resultQ>>
lockVars == <<poisonedObs, poisonedRes>>
resLocals == <<resPlayer, winner, vps>>
callerVars == <<callerPc, resPlayer, winner, vps, lastRet, lastResult>>
histVars == <<proto, misuses, nEmitted, nReturned, nResults, consumed, lastCall>>
encVars == <<encIn, encEdits, encDone, encOut>>
envVars == <<kind, players, opponents, include_hidden, simVars, chanVars,
             lockVars, callerVars, histVars>>
vars == <<config, simVars, chanVars, lockVars, callerVars, histVars>>

Seats == 0 .. players - 1

RECURSIVE Perms(_)
Perms(S) ==
  IF S = {} THEN {<<>>}
  ELSE UNION {{<<x>> \o p : p \in Perms(S \ {x})} : x \in S}

\* ------------------------------------------------------------ messages
NoneMsg(g) == [k |-> "none", id |-> 0, hid |-> FALSE, d |-> 0, g |-> g]

\* hidden is Some(..) iff format.include_hidden
NewArrayHidden_never(fmt_hidden) == FALSE
NewArrayHidden(fmt_hidden) == fmt_hidden

ObsMsg(id, fmt_hidden, d, g) ==
  [k |-> "obs", id |-> id, hid |-> NewArrayHidden(fmt_hidden), d |-> d, g |-> g]

\* to_py_tuple: the record handed to Python, or the unwrap() panic
ToPyTuple(hidden_state, msg) ==
  IF msg.k = "obs"
    THEN IF hidden_state
           THEN IF msg.hid
                  THEN [ok |-> TRUE, k |-> "obs", id |-> msg.id, len |-> 6]
                  ELSE [ok |-> FALSE, k |-> "err", id |-> 0, len |-> 0]
           ELSE [ok |-> TRUE, k |-> "obs", id |-> msg.id, len |-> 5]
    ELSE IF hidden_state
           THEN [ok |-> TRUE, k |-> "term", id |-> 0, len |-> 6]
           ELSE [ok |-> TRUE, k |-> "term", id |-> 0, len |-> 5]

\* ------------------------------------------------- std::sync::mpsc use
\* recv(): the message taken and what stays queued
RecvRest_peek(q) == q
RecvRest(q) == Tail(q)

\* recv() returns Err once every sender is gone and nothing is queued
RecvFails_never(q, connected) == FALSE
RecvFails(q, connected) == q = <<>> /\ ~connected

\* send(): the message joins the queue
SendAction_lost(q, m) == q
SendAction_twice(q, m) == Append(Append(q, m), m)
SendAction(q, m) == Append(q, m)

\* channel() is unbounded: send() never waits for the receiver
SendBlocks_rendezvous(q) == Len(q) >= 1
SendBlocks(q) == FALSE

\* send() returns Err once the receiver is gone
SendFails(connected) == ~connected

Connected == simPc # "crashed"

\* --------------------------------------------------------- construction
\* MultiEnvironment::new: the i-th (action_receiver, result_sender) pair goes
\* to PythonPlayer::new(i as u8, ..)
PlayerIdOf_reversed(i) == players - 1 - i
PlayerIdOf(i) == i

\* MultiEnvironment::play: action_senders[player as usize]
PlaySender(player) == player

\* ------------------------------------------------- observation encoder
ResourceIds == 0 .. 4    \* Resource::COUNT resource types
DevCardIds == 0 .. 4     \* DevelopmentCard::ALL, by to_usize()
HarborIds == 0 .. 5      \* the six harbor kinds of PlayerHand.harbor
NonePlayer == -1         \* PlayerId::NONE

RECURSIVE SumOver(_, _)
SumOver(f, S) ==
  IF S = {} THEN 0
  ELSE LET x == CHOOSE y \in S : TRUE IN f[x] + SumOver(f, S \ {x})
\* resources.total(), development_cards.total()
Total(f) == SumOver(f, DOMAIN f)

EmptyHand ==
  [resources |-> [r \in ResourceIds |-> 0],
   road_pieces |-> 0, settlement_pieces |-> 0, city_pieces |-> 0, knights |-> 0,
   development_cards |-> [d \in DevCardIds |-> 0],
   new_development_cards |-> [d \in DevCardIds |-> 0],
   harbor |-> [h \in HarborIds |-> FALSE]]

\* Array1::<i32>::zeros(n); ok turns FALSE when an indexed write panics
Zeros(n) == [ok |-> TRUE, a |-> [i \in 0 .. n - 1 |-> 0]]
\* a run of indexed writes <<index, value>>, in order: a cell keeps the last
\* value written to it, and one write out of bounds panics
PutAll(arr, writes) ==
  LET W == DOMAIN writes
      written == {writes[k][1] : k \in W}
      LastAt(i) == CHOOSE k \in W :
                     /\ writes[k][1] = i
                     /\ \A j \in W : writes[j][1] = i => j <= k
  IN [ok |-> arr.ok /\ written \subseteq DOMAIN arr.a,
      a |-> [i \in DOMAIN arr.a |->
               IF i \in written THEN writes[LastAt(i)][2] ELSE arr.a[i]]]

Flag(b) == IF b THEN 1 ELSE 0

\* catan::player::relative::offset_to_player_id
OffsetToPlayerId(player, opp, player_count) == (player + opp) % player_count

\* fill_flat_visible: 27 cells from index
FillFlatVisible(arr, index, hand, has_longest_road, has_largest_army) ==
  PutAll(arr,
    [r \in 1 .. 5 |-> <<index + (r - 1), hand.resources[r - 1]>>]
    \o <<<<index + 5, hand.road_pieces>>,
         <<index + 6, hand.settlement_pieces>>,
         <<index + 7, hand.city_pieces>>,
         <<index + 8, hand.knights>>>>
    \o [d \in 1 .. 5 |-> <<index + 9 + (d - 1), hand.development_cards[d - 1]>>]
    \o [d \in 1 .. 5 |-> <<index + 14 + (d - 1), hand.new_development_cards[d - 1]>>]
    \o [h \in 1 .. 6 |-> <<index + 19 + (h - 1), Flag(hand.harbor[h - 1])>>]
    \o <<<<index + 25, Flag(has_longest_road)>>,
         <<index + 26, Flag(has_largest_army)>>>>)

\* fill_flat_concealed: 8 cells from index
FillFlatConcealed_firstResource(arr, index, hand, has_longest_road, has_largest_army) ==
  PutAll(arr,
    <<<<index, hand.resources[0]>>,
      <<index + 1, hand.road_pieces>>,
      <<index + 2, hand.settlement_pieces>>,
      <<index + 3, hand.city_pieces>>,
      <<index + 4, hand.knights>>,
      <<index + 5, Total(hand.development_cards)>>,
      <<index + 6, Flag(has_longest_road)>>,
      <<index + 7, Flag(has_largest_army)>>>>)
FillFlatConcealed(arr, index, hand, has_longest_road, has_largest_army) ==
  PutAll(arr,
    <<<<index, Total(hand.resources)>>,
      <<index + 1, hand.road_pieces>>,
      <<index + 2, hand.settlement_pieces>>,
      <<index + 3, hand.city_pieces>>,
      <<index + 4, hand.knights>>,
      <<index + 5, Total(hand.development_cards)>>,
      <<index + 6, Flag(has_longest_road)>>,
      <<index + 7, Flag(has_largest_army)>>>>)

\* the loop over opponents of generate_flat: for opp in 1..player_count
RECURSIVE FlatOpponents_overlap(_, _, _, _)
FlatOpponents_overlap(arr, player, state, opp) ==
  IF opp >= state.player_count THEN arr
  ELSE LET player_index == 18 + opp * 8
           q == OffsetToPlayerId(player, opp, state.player_count)
       IN FlatOpponents_overlap(
            FillFlatConcealed(arr, player_index, state.hands[q],
                              state.longest_road = q, state.largest_army = q),
            player, state, opp + 1)
RECURSIVE FlatOpponents(_, _, _, _)
FlatOpponents(arr, player, state, opp) ==
  IF opp >= state.player_count THEN arr
  ELSE LET player_index == 19 + opp * 8
           q == OffsetToPlayerId(player, opp, state.player_count)
       IN FlatOpponents(
            FillFlatConcealed(arr, player_index, state.hands[q],
                              state.longest_road = q, state.largest_army = q),
            player, state, opp + 1)

\* the four phase cells of generate_flat
PhaseWrites(c_phase, phase) ==
  IF phase.turn
    THEN <<<<c_phase, Flag(phase.turn_phase = "PreRoll")>>,
           <<c_phase + 1, Flag(phase.development_phase = "Ready")>>,
           <<c_phase + 2, IF phase.development_phase = "RoadBuildingActive"
                            THEN (IF phase.two_left THEN 2 ELSE 1) ELSE 0>>,
           <<c_phase + 3, IF phase.development_phase = "YearOfPlentyActive"
                            THEN (IF phase.two_left THEN 2 ELSE 1) ELSE 0>>>>
    ELSE <<>>

\* generate_flat
GenerateFlat(player, state, phase) ==
  LET n == state.player_count
      own == FillFlatVisible(Zeros(29 + n * 8), 0, state.hands[player],
                             state.longest_road = player,
                             state.largest_army = player)
      opps == FlatOpponents(own, player, state, 1)
      c_state == 19 + n * 8
      bank == PutAll(opps,
                [r \in 1 .. 5 |-> <<c_state + (r - 1), state.bank_resources[r - 1]>>]
                \o <<<<c_state + 5, Total(state.development_cards)>>>>)
  IN PutAll(bank, PhaseWrites(c_state + 6, phase))

\* the loop over opponents of generate_hidden
RECURSIVE HiddenOpponents_packed(_, _, _, _)
HiddenOpponents_packed(arr, player, state, opp) ==
  IF opp >= state.player_count THEN arr
  ELSE LET player_index == (opp - 1) * 8
           q == OffsetToPlayerId(player, opp, state.player_count)
       IN HiddenOpponents_packed(
            FillFlatConcealed(arr, player_index, state.hands[q],
                              state.longest_road = q, state.largest_army = q),
            player, state, opp + 1)
RECURSIVE HiddenOpponents(_, _, _, _)
HiddenOpponents(arr, player, state, opp) ==
  IF opp >= state.player_count THEN arr
  ELSE LET player_index == (opp - 1) * 27
           q == OffsetToPlayerId(player, opp, state.player_count)
       IN HiddenOpponents(
            FillFlatConcealed(arr, player_index, state.hands[q],
                              state.longest_road = q, state.largest_army = q),
            player, state, opp + 1)

\* generate_hidden
GenerateHidden_fromSeat0(player, state, phase) ==
  HiddenOpponents(Zeros((state.player_count - 1) * 27), 0, state, 1)
GenerateHidden(player, state, phase) ==
  HiddenOpponents(Zeros((state.player_count - 1) * 27), player, state, 1)

\* ---------------------------------------------------------------- board
\* a small layout: two hexes, two paths, two intersections, and format.map,
\* which gives every coordinate its own cell of the width x height grid
LayoutHexes == <<0, 1>>
LayoutPaths == <<2, 3>>
LayoutIntersections == <<4, 5>>
BoardXs == 0 .. 2
BoardYs == 0 .. 1
MapCoord(coord) == <<coord % 3, coord \div 3>>
\* board[(x, y, channel)] of a (width, height, channels) array: the cell's
\* place in the array, none (-1, a panic) when an index is out of its range
Cell(coord, channel, channels) ==
  LET x == MapCoord(coord)[1]
      y == MapCoord(coord)[2]
  IN IF x \in BoardXs /\ y \in BoardYs /\ channel \in 0 .. channels - 1
       THEN (x * Cardinality(BoardYs) + y) * channels + channel
       ELSE -1

\* catan::player::relative::player_id_to_relative
PlayerIdToRelative(player, p, player_count) ==
  (p + player_count - player) % player_count

\* Array3::<i32>::zeros((width, height, channels))
Zeros3(channels) == Zeros(Cardinality(BoardXs) * Cardinality(BoardYs) * channels)

\* the channels of the board: 13 + 2 * player_count
Channels(state) == 13 + 2 * state.player_count

RECURSIVE FlattenSeq(_)
FlattenSeq(ss) == IF ss = <<>> THEN <<>> ELSE Head(ss) \o FlattenSeq(Tail(ss))

\* generate_board, the body of the loop over layout.hexes
HexWrites(state, coord) ==
  LET hex == state.static_hex[coord] IN
    IF hex.land
      THEN (IF hex.desert
              THEN <<<<Cell(coord, 5, Channels(state)), 1>>>>
              ELSE <<<<Cell(coord, hex.res, Channels(state)), hex.num>>>>)
           \o (IF coord = state.thief_hex
                 THEN <<<<Cell(coord, 6, Channels(state)), 1>>>> ELSE <<>>)
      ELSE <<>>

\* generate_board, the body of the loop over layout.paths
PathWrites_absolute(player, state, coord) ==
  LET p == state.paths[coord] IN
    IF p # NonePlayer THEN <<<<Cell(coord, 7 + p, Channels(state)), 1>>>> ELSE <<>>
PathWrites(player, state, coord) ==
  LET p == state.paths[coord] IN
    IF p # NonePlayer
      THEN <<<<Cell(coord, 7 + PlayerIdToRelative(player, p, state.player_count),
                    Channels(state)), 1>>>>
      ELSE <<>>

\* generate_board, the body of the loop over layout.intersections
IntersectionWrites(player, state, coord) ==
  LET c_harbor == 7 + state.player_count
      c_buildings == c_harbor + 6
      harbor == state.static_harbor[coord]
      b == state.intersections[coord]
  IN (IF harbor.kind = "Generic"
        THEN <<<<Cell(coord, c_harbor + 5, Channels(state)), 1>>>>
      ELSE IF harbor.kind = "Special"
        THEN <<<<Cell(coord, c_harbor + harbor.res, Channels(state)), 1>>>>
      ELSE <<>>)
     \o (IF b.owner # NonePlayer
           THEN <<<<Cell(coord, c_buildings
                          + PlayerIdToRelative(player, b.owner, state.player_count),
                          Channels(state)),
                    IF b.is_city THEN 2 ELSE 1>>>>
           ELSE <<>>)

\* generate_board
GenerateBoard(player, state) ==
  PutAll(Zeros3(Channels(state)),
         FlattenSeq([i \in DOMAIN LayoutHexes |-> HexWrites(state, LayoutHexes[i])])
         \o FlattenSeq([i \in DOMAIN LayoutPaths |->
                          PathWrites(player, state, LayoutPaths[i])])
         \o FlattenSeq([i \in DOMAIN LayoutIntersections |->
                          IntersectionWrites(player, state, LayoutIntersections[i])]))

\* new_array: board, flat, hidden (Some iff format.include_hidden) and the
\* legal-action mask
NewArray_allLegal(fmt_hidden, player, state, phase, legal_actions) ==
  [actions |-> [i \in DOMAIN legal_actions |-> TRUE],
   board |-> GenerateBoard(player, state),
   flat |-> GenerateFlat(player, state, phase),
   has_hidden |-> NewArrayHidden(fmt_hidden),
   hidden |-> IF NewArrayHidden(fmt_hidden)
                THEN GenerateHidden(player, state, phase)
                ELSE Zeros(0),
   via |-> "new_array"]
NewArray(fmt_hidden, player, state, phase, legal_actions) ==
  [actions |-> legal_actions,
   board |-> GenerateBoard(player, state),
   flat |-> GenerateFlat(player, state, phase),
   has_hidden |-> NewArrayHidden(fmt_hidden),
   hidden |-> IF NewArrayHidden(fmt_hidden)
                THEN GenerateHidden(player, state, phase)
                ELSE Zeros(0),
   via |-> "new_array"]

\* PythonState.boards: one board per player, kept as generate_board gives it
PyStateBoards(state) ==
  [q \in 0 .. state.player_count - 1 |-> GenerateBoard(q, state)]

\* new_python_array: the board is py_state.boards[player.to_usize()].clone()
NewPythonArray(fmt_hidden, player, py_boards, state, phase, legal_actions) ==
  [actions |-> legal_actions,
   board |-> py_boards[player],
   flat |-> GenerateFlat(player, state, phase),
   has_hidden |-> NewArrayHidden(fmt_hidden),
   hidden |-> IF NewArrayHidden(fmt_hidden)
                THEN GenerateHidden(player, state, phase)
                ELSE Zeros(0),
   via |-> "new_python_array"]

\* the encoder's inputs, built by unit changes from the empty state
EmptyState(n) ==
  [player_count |-> n,
   hands |-> [q \in 0 .. n - 1 |-> EmptyHand],
   longest_road |-> NonePlayer, largest_army |-> NonePlayer,
   bank_resources |-> [r \in ResourceIds |-> 0],
   development_cards |-> [d \in DevCardIds |-> 0],
   static_hex |-> [c \in {0, 1} |->
                    IF c = 0 THEN [land |-> TRUE, desert |-> TRUE, res |-> 0, num |-> 0]
                    ELSE [land |-> TRUE, desert |-> FALSE, res |-> 2, num |-> 8]],
   thief_hex |-> 0,
   static_harbor |-> [c \in {4, 5} |->
                       IF c = 4 THEN [kind |-> "Generic", res |-> 0]
                       ELSE [kind |-> "Special", res |-> 3]],
   paths |-> [c \in {2, 3} |-> NonePlayer],
   intersections |-> [c \in {4, 5} |-> [owner |-> NonePlayer, is_city |-> FALSE]]]
SetupPhase ==
  [turn |-> FALSE, turn_phase |-> "Free", development_phase |-> "Ready",
   two_left |-> FALSE]
TurnPhases ==
  {ph \in [turn : {TRUE}, turn_phase : {"PreRoll", "Free"},
           development_phase : {"Ready", "DevelopmentPlayed",
                                "RoadBuildingActive", "YearOfPlentyActive"},
           two_left : BOOLEAN] :
     ph.two_left =>
       ph.development_phase \in {"RoadBuildingActive", "YearOfPlentyActive"}}
NoObservation ==
  [actions |-> <<>>, board |-> Zeros(0), flat |-> Zeros(0), has_hidden |-> FALSE,
   hidden |-> Zeros(0), via |-> "none"]

EncIdle ==
  /\ encIn = [fmt_hidden |-> FALSE, player |-> 0, state |-> EmptyState(1),
              phase |-> SetupPhase, mask |-> <<>>]
  /\ encEdits = 0 /\ encDone = FALSE /\ encOut = NoObservation

NoRet == [k |-> "none", id |-> 0, len |-> 0, d |-> 0, g |-> 0, via |-> "none"]
NoResult == [k |-> "none", vps |-> <<>>, winner |-> 0, win |-> FALSE,
             gs |-> <<>>, wins |-> <<>>, from |-> <<>>]
NoCall == [op |-> "none", seat |-> 0, wrong |-> FALSE, crashed |-> FALSE]

InitEnv ==
  /\ simPc = "setup" /\ gameNo = 0 /\ order = <<>> /\ turn = 0
  /\ waiting = 0 /\ nDec = 0 /\ finIdx = 0
  /\ actionQ = [s \in Seats |-> <<>>]
  /\ obsQ = <<>>
  /\ resultQ = [s \in Seats |-> <<>>]
  /\ poisonedObs = FALSE /\ poisonedRes = {}
  /\ callerPc = "idle" /\ resPlayer = 0 /\ winner = 0 /\ vps = <<>>
  /\ lastRet = NoRet /\ lastResult = NoResult
  /\ proto = "start" /\ misuses = 0 /\ nEmitted = 0 /\ nReturned = 0 /\ nResults = 0
  /\ consumed = [d |-> 0, seen |-> 0]
  /\ lastCall = NoCall

InitCommon == InitEnv /\ EncIdle

\* SingleEnvironment::new(format, opponents)
InitSingle ==
  /\ kind = "single" /\ players = 1
  /\ opponents \in 0 .. MaxOpponents
  /\ include_hidden \in BOOLEAN
  /\ InitCommon

\* MultiEnvironment::new(format, players)
InitMulti ==
  /\ kind = "multi" /\ opponents = 0
  /\ players \in 1 .. MaxPlayers
  /\ include_hidden \in BOOLEAN
  /\ InitCommon

Init == InitSingle \/ InitMulti

\* ---------------------------------------------------- simulation thread
\* loop body of the spawned thread: a fresh game, a fresh shuffled seating
SetupGame_afterResult ==
  /\ simPc = "setup" /\ gameNo < MaxGames /\ nResults >= gameNo
  /\ gameNo' = gameNo + 1
  /\ order' \in Perms(Seats)
  /\ turn' \in 0 .. opponents
  /\ nDec' = 0
  /\ simPc' = "advance"
  /\ UNCHANGED <<config, waiting, finIdx, chanVars, lockVars, callerVars, histVars>>
SetupGame ==
  /\ simPc = "setup" /\ gameNo < MaxGames
  /\ gameNo' = gameNo + 1
  /\ order' \in Perms(Seats)
  /\ turn' \in 0 .. opponents
  /\ nDec' = 0
  /\ simPc' = "advance"
  /\ UNCHANGED <<config, waiting, finIdx, chanVars, lockVars, callerVars, histVars>>

\* a scripted opponent decides inside the thread; nothing is published
ScriptedMove ==
  /\ simPc = "advance" /\ turn > 0
  /\ turn' = (turn + 1) % (opponents + 1)
  /\ UNCHANGED <<config, simPc, gameNo, order, waiting, nDec, finIdx,
                 chanVars, lockVars, callerVars, histVars>>

\* PythonPlayer::pick_action, up to its blocking receive: the player at
\* position p publishes (self.id, observation) and waits on its own receiver
PickActionPublish ==
  /\ simPc = "advance" /\ turn = 0 /\ nDec < MaxDecisions
  /\ ~SendBlocks(obsQ)
  /\ \E p \in 1 .. Len(order) :
       LET pl == order[p] IN
         /\ obsQ' = Append(obsQ, ObsMsg(PlayerIdOf(pl), include_hidden,
                                        nEmitted + 1, gameNo))
         /\ waiting' = pl
  /\ nEmitted' = nEmitted + 1
  /\ simPc' = "await"
  /\ UNCHANGED <<config, gameNo, order, turn, nDec, finIdx, actionQ, resultQ,
                 lockVars, callerVars, proto, misuses, nReturned, nResults, consumed, lastCall>>

\* PythonPlayer::pick_action, from its blocking receive on
AwaitedAction == Head(actionQ[waiting])
PickActionTake ==
  /\ simPc = "await" /\ actionQ[waiting] # <<>>
  /\ actionQ' = [actionQ EXCEPT ![waiting] = Tail(@)]
  /\ consumed' = [d |-> nEmitted, seen |-> AwaitedAction.seen]
  /\ nDec' = nDec + 1
  /\ turn' = IF opponents > 0 THEN 1 ELSE 0
  /\ simPc' = "advance"
  /\ UNCHANGED <<config, gameNo, order, waiting, finIdx, obsQ, resultQ,
                 lockVars, callerVars, proto, misuses, nEmitted, nReturned, nResults, lastCall>>

\* the engine finds the game finished
GameOver ==
  /\ simPc = "advance" /\ nDec >= 1
  /\ simPc' = "results"
  /\ finIdx' = 1
  /\ UNCHANGED <<config, gameNo, order, turn, waiting, nDec,
                 chanVars, lockVars, callerVars, histVars>>

\* PythonPlayer::results of the player at position finIdx: the terminal
\* sentinel on the shared observation channel, then its own result
PlayerResultsOver(scores) ==
  /\ simPc = "results"
  /\ LET pl == order[finIdx] IN
       \E vp \in scores, win \in BOOLEAN :
         /\ ~SendBlocks(obsQ) /\ ~SendBlocks(resultQ[pl])
         /\ obsQ' = Append(obsQ, NoneMsg(gameNo))
         /\ resultQ' = [resultQ EXCEPT
                          ![pl] = Append(@, [vp |-> vp, win |-> win, g |-> gameNo,
                                             from |-> pl])]
  /\ IF finIdx = Len(order)
       THEN simPc' = "setup" /\ finIdx' = 0
       ELSE simPc' = simPc /\ finIdx' = finIdx + 1
  /\ UNCHANGED <<config, gameNo, order, turn, waiting, nDec, actionQ,
                 lockVars, callerVars, histVars>>

\* the engine's scores range over 0 .. MaxVP
PlayerResults == PlayerResultsOver(0 .. MaxVP)
\* one score only: the bridge never reads a score, and an arbitrary caller
\* already multiplies the states
PlayerResultsFlag == PlayerResultsOver({0})

\* the engine panics: the thread unwinds and drops its channel endpoints
Crash ==
  /\ simPc \in {"advance", "results"}
  /\ simPc' = "crashed"
  /\ UNCHANGED <<config, gameNo, order, turn, waiting, nDec, finIdx,
                 chanVars, lockVars, callerVars, histVars>>

\* --------------------------------------------------------------- caller
ErrRet(via) == [k |-> "err", id |-> 0, len |-> 0, d |-> 0, g |-> 0, via |-> via]
ErrResult == [k |-> "err", vps |-> <<>>, winner |-> 0, win |-> FALSE,
              gs |-> <<>>, wins |-> <<>>, from |-> <<>>]

\* The caller's discipline: a call is the expected one when it is the call the
\* last return asks for (start() first and after result(), play() for the
\* addressed seat after a non-terminal observation, result() after a terminal
\* one); anything goes after a failed call. Other calls are counted.
IsExpected(op, seat) ==
  \/ proto = "any"
  \/ proto = op /\ (op = "play" => lastRet.k = "obs" /\ seat = lastRet.id)
Expected(op, seat) ==
  IF IsExpected(op, seat)
    THEN misuses' = misuses
    ELSE misuses < MaxMisuse /\ misuses' = misuses + 1

\* start(): up to the blocking recv()
CallStart ==
  /\ callerPc = "idle"
  /\ Expected("start", 0)
  /\ callerPc' = "start"
  /\ lastCall' = [op |-> "start", seat |-> 0, wrong |-> FALSE,
                  crashed |-> ~Connected]
  /\ UNCHANGED <<config, simVars, chanVars, lockVars, resLocals, lastRet,
                 lastResult, proto, nEmitted, nReturned, nResults, consumed>>

\* play(player, action): the send and the unpark, up to the blocking recv();
\* an index past action_senders panics, a send to a dropped receiver fails
PlaySeats == IF kind = "single" THEN {0} ELSE 0 .. players
CallPlay ==
  /\ callerPc = "idle"
  /\ \E seat \in PlaySeats :
       LET wrong == lastRet.k = "obs" /\ seat \in Seats /\ seat # lastRet.id
           call == [op |-> "play", seat |-> seat, wrong |-> wrong,
                    crashed |-> ~Connected]
       IN
         /\ lastCall' = call
         /\ Expected("play", seat)
         /\ IF seat \notin Seats \/ SendFails(Connected)
              THEN /\ lastRet' = ErrRet("play")
                   /\ proto' = "any"
                   /\ UNCHANGED <<callerPc, actionQ>>
              ELSE /\ ~SendBlocks(actionQ[PlaySender(seat)])
                   /\ actionQ' = [actionQ EXCEPT ![PlaySender(seat)] =
                                    SendAction(@, [seen |-> nReturned])]
                   /\ callerPc' = "play"
                   /\ UNCHANGED <<lastRet, proto>>
  /\ UNCHANGED <<config, simVars, obsQ, resultQ, lockVars, resLocals,
                 lastResult, nEmitted, nReturned, nResults, consumed>>

\* start()/play(): lock().unwrap().recv().expect(..) and to_py_tuple
ObsReturn ==
  /\ callerPc \in {"start", "play"}
  /\ \/ /\ poisonedObs
        /\ lastRet' = ErrRet(callerPc)
        /\ proto' = "any"
        /\ UNCHANGED <<obsQ, poisonedObs, nReturned>>
     \/ /\ ~poisonedObs /\ obsQ # <<>>
        /\ obsQ' = RecvRest(obsQ)
        /\ LET msg == Head(obsQ)
               t == ToPyTuple(include_hidden, msg)
           IN IF t.ok
                THEN /\ lastRet' = [k |-> t.k, id |-> t.id, len |-> t.len,
                                    d |-> msg.d, g |-> msg.g, via |-> callerPc]
                     /\ nReturned' = IF t.k = "obs" THEN nReturned + 1 ELSE nReturned
                     /\ proto' = IF t.k = "obs" THEN "play" ELSE "result"
                     /\ UNCHANGED poisonedObs
                ELSE /\ lastRet' = ErrRet(callerPc)
                     /\ poisonedObs' = TRUE
                     /\ proto' = "any"
                     /\ UNCHANGED nReturned
     \/ /\ ~poisonedObs /\ RecvFails(obsQ, Connected)
        /\ lastRet' = ErrRet(callerPc)
        /\ poisonedObs' = TRUE
        /\ proto' = "any"
        /\ UNCHANGED <<obsQ, nReturned>>
  /\ callerPc' = "idle"
  /\ UNCHANGED <<config, simVars, actionQ, resultQ, poisonedRes, resLocals,
                 lastResult, misuses, nEmitted, nResults, consumed, lastCall>>

\* result(): up to the first blocking recv()
CallResult ==
  /\ callerPc = "idle"
  /\ callerPc' = "result"
  /\ resPlayer' = 0
  /\ winner' = 0
  /\ vps' = [i \in 1 .. players |-> 0]
  /\ Expected("result", 0)
  /\ lastCall' = [op |-> "result", seat |-> 0, wrong |-> FALSE,
                  crashed |-> ~Connected]
  /\ UNCHANGED <<config, simVars, chanVars, lockVars, lastRet, lastResult,
                 proto, nEmitted, nReturned, nResults, consumed>>

\* MultiEnvironment::result, the loop body after the recv()
ResultWinner_first(w, player, result) == IF result.win /\ w = 0 THEN player ELSE w
ResultWinner(w, player, result) == IF result.win THEN player ELSE w

\* result(): one recv() of SingleEnvironment, or one round of the loop of
\* MultiEnvironment over result_receivers
ResultRecv ==
  /\ callerPc = "result"
  /\ \/ /\ resPlayer \in poisonedRes
        /\ lastResult' = ErrResult
        /\ callerPc' = "idle"
        /\ proto' = "any"
        /\ UNCHANGED <<resultQ, poisonedRes, resLocals, nResults>>
     \/ /\ resPlayer \notin poisonedRes /\ resultQ[resPlayer] # <<>>
        /\ resultQ' = [resultQ EXCEPT ![resPlayer] = RecvRest(@)]
        /\ LET r == Head(resultQ[resPlayer])
               w == ResultWinner(winner, resPlayer, r)
               v == [vps EXCEPT ![resPlayer + 1] = r.vp]
               first == resPlayer = 0
               gs == IF first THEN <<r.g>> ELSE Append(lastResult.gs, r.g)
               wins == IF first THEN <<r.win>> ELSE Append(lastResult.wins, r.win)
               from == IF first THEN <<r.from>> ELSE Append(lastResult.from, r.from)
           IN IF kind = "single"
                THEN /\ lastResult' = [k |-> "single", vps |-> <<r.vp>>, winner |-> 0,
                                       win |-> r.win, gs |-> gs, wins |-> wins,
                                       from |-> from]
                     /\ callerPc' = "idle"
                     /\ proto' = "start"
                     /\ nResults' = nResults + 1
                     /\ UNCHANGED resLocals
                ELSE /\ winner' = w
                     /\ vps' = v
                     /\ resPlayer' = resPlayer + 1
                     /\ IF resPlayer + 1 = players
                          THEN /\ lastResult' = [k |-> "multi", vps |-> v, winner |-> w,
                                                 win |-> FALSE, gs |-> gs, wins |-> wins,
                                                 from |-> from]
                               /\ callerPc' = "idle"
                               /\ proto' = "start"
                               /\ nResults' = nResults + 1
                          ELSE /\ lastResult' = [k |-> "partial", vps |-> <<>>,
                                                 winner |-> 0, win |-> FALSE,
                                                 gs |-> gs, wins |-> wins,
                                                 from |-> from]
                               /\ UNCHANGED <<callerPc, proto, nResults>>
        /\ UNCHANGED poisonedRes
     \/ /\ resPlayer \notin poisonedRes /\ RecvFails(resultQ[resPlayer], Connected)
        /\ lastResult' = ErrResult
        /\ poisonedRes' = poisonedRes \cup {resPlayer}
        /\ callerPc' = "idle"
        /\ proto' = "any"
        /\ UNCHANGED <<resultQ, resLocals, nResults>>
  /\ UNCHANGED <<config, simVars, actionQ, obsQ, poisonedObs, lastRet,
                 misuses, nEmitted, nReturned, consumed, lastCall>>

\* ------------------------------------------------------ specifications
\* any caller (at most MaxMisuse unexpected calls), engine faults
Next ==
  \/ SetupGame \/ ScriptedMove \/ PickActionPublish \/ PickActionTake
  \/ GameOver \/ PlayerResultsFlag \/ Crash
  \/ CallStart \/ CallPlay \/ CallResult \/ ObsReturn \/ ResultRecv

Spec == Init /\ [][Next]_vars

\* a caller that only issues the expected call, for at most MaxGames games,
\* and an engine that does not fault
ProtoStart == CallStart /\ misuses' = misuses /\ nResults < MaxGames
ProtoPlay == CallPlay /\ misuses' = misuses
ProtoResult == CallResult /\ misuses' = misuses

SimProto ==
  \/ SetupGame \/ ScriptedMove \/ PickActionPublish \/ PickActionTake
  \/ GameOver \/ PlayerResults

CallerProto == ProtoStart \/ ProtoPlay \/ ProtoResult \/ ObsReturn \/ ResultRecv

NextProto ==
  \/ SetupGame \/ ScriptedMove \/ PickActionPublish \/ PickActionTake
  \/ GameOver \/ PlayerResults
  \/ ProtoStart \/ ProtoPlay \/ ProtoResult \/ ObsReturn \/ ResultRecv

SpecProto == Init /\ [][NextProto]_vars

\* SingleEnvironment alone, with both threads running: the simulation thread
\* is a spawned OS thread, and the caller keeps calling
SpecSingle ==
  InitSingle /\ [][NextProto]_vars /\ WF_vars(SimProto) /\ WF_vars(CallerProto)

\* the encoder alone: the inputs are built from the empty state by at most
\* MaxEdits unit changes, then new_array runs on them
InitEnc ==
  /\ kind = "single" /\ players = 1 /\ opponents = 0 /\ include_hidden = FALSE
  /\ InitEnv
  /\ \E n \in 1 .. MaxEncPlayers, player \in 0 .. MaxEncPlayers - 1,
        h \in BOOLEAN :
       /\ player < n
       /\ encIn = [fmt_hidden |-> h, player |-> player, state |-> EmptyState(n),
                   phase |-> SetupPhase, mask |-> [i \in 1 .. MaskLen |-> FALSE]]
  /\ encEdits = 0 /\ encDone = FALSE /\ encOut = NoObservation

EncPlayers == 0 .. encIn.state.player_count - 1
CanEdit == ~encDone /\ encEdits < MaxEdits
Edited(state) ==
  /\ encIn' = [encIn EXCEPT !.state = state]
  /\ encEdits' = encEdits + 1
  /\ UNCHANGED <<encDone, encOut, envVars>>

\* one more card, piece, knight or harbor in one hand
EditHand ==
  /\ CanEdit
  /\ \E q \in EncPlayers :
       LET st == encIn.state
           hand == st.hands[q]
           With(h) == Edited([st EXCEPT !.hands[q] = h])
       IN \/ \E r \in ResourceIds :
               With([hand EXCEPT !.resources[r] = @ + 1])
          \/ \E d \in DevCardIds :
               With([hand EXCEPT !.development_cards[d] = @ + 1])
          \/ \E d \in DevCardIds :
               With([hand EXCEPT !.new_development_cards[d] = @ + 1])
          \/ With([hand EXCEPT !.road_pieces = @ + 1])
          \/ With([hand EXCEPT !.settlement_pieces = @ + 1])
          \/ With([hand EXCEPT !.city_pieces = @ + 1])
          \/ With([hand EXCEPT !.knights = @ + 1])
          \/ \E h \in HarborIds : With([hand EXCEPT !.harbor[h] = TRUE])

\* the bank and the two awards
EditShared ==
  /\ CanEdit
  /\ LET st == encIn.state IN
       \/ \E q \in EncPlayers : Edited([st EXCEPT !.longest_road = q])
       \/ \E q \in EncPlayers : Edited([st EXCEPT !.largest_army = q])
       \/ \E r \in ResourceIds : Edited([st EXCEPT !.bank_resources[r] = @ + 1])
       \/ \E d \in DevCardIds : Edited([st EXCEPT !.development_cards[d] = @ + 1])

\* a road on a free path, a settlement on a free intersection, or a
\* settlement turned into a city
EditBoard ==
  /\ CanEdit
  /\ LET st == encIn.state IN
       \/ \E i \in DOMAIN LayoutPaths, q \in EncPlayers :
            /\ st.paths[LayoutPaths[i]] = NonePlayer
            /\ Edited([st EXCEPT !.paths[LayoutPaths[i]] = q])
       \/ \E i \in DOMAIN LayoutIntersections, q \in EncPlayers :
            /\ st.intersections[LayoutIntersections[i]].owner = NonePlayer
            /\ Edited([st EXCEPT !.intersections[LayoutIntersections[i]] =
                                    [owner |-> q, is_city |-> FALSE]])
       \/ \E i \in DOMAIN LayoutIntersections :
            /\ st.intersections[LayoutIntersections[i]].owner # NonePlayer
            /\ ~st.intersections[LayoutIntersections[i]].is_city
            /\ Edited([st EXCEPT !.intersections[LayoutIntersections[i]].is_city = TRUE])

\* the phase and the legal-action mask handed to the encoder
EditCall ==
  /\ CanEdit
  /\ \/ \E ph \in TurnPhases : encIn' = [encIn EXCEPT !.phase = ph]
     \/ \E i \in 1 .. MaskLen : encIn' = [encIn EXCEPT !.mask[i] = ~@]
  /\ encEdits' = encEdits + 1
  /\ UNCHANGED <<encDone, encOut, envVars>>

\* PyCatanObservation::new_array(format, player, state, phase, legal_actions)
Encode ==
  /\ ~encDone
  /\ encOut' = NewArray(encIn.fmt_hidden, encIn.player, encIn.state,
                        encIn.phase, encIn.mask)
  /\ encDone' = TRUE
  /\ UNCHANGED <<encIn, encEdits, envVars>>

\* PyCatanObservation::new_python_array(format, player, py_state, state,
\* phase, legal_actions)
EncodePython ==
  /\ ~encDone
  /\ encOut' = NewPythonArray(encIn.fmt_hidden, encIn.player,
                              PyStateBoards(encIn.state), encIn.state,
                              encIn.phase, encIn.mask)
  /\ encDone' = TRUE
  /\ UNCHANGED <<encIn, encEdits, envVars>>

NextEnc == EditHand \/ EditShared \/ EditBoard \/ EditCall \/ Encode \/ EncodePython

SpecEnc == InitEnc /\ [][NextEnc]_vars

\* ================================================================ claims
ObsQueued == {i \in DOMAIN obsQ : obsQ[i].k = "obs"}
SentinelsQueued(g) == {i \in DOMAIN obsQ : obsQ[i].k = "none" /\ obsQ[i].g = g}
SimBlocked == simPc = "await" /\ actionQ[waiting] = <<>>
CallerBlocked ==
  \/ callerPc \in {"start", "play"} /\ ~ENABLED ObsReturn
  \/ callerPc = "result" /\ ~ENABLED ResultRecv

\* C1: with a caller that follows the protocol, the non-terminal observations
\* returned by start()/play() are the decision points, one for one and in
\* order: the k-th returned one is that of the k-th decision point, every
\* decision point has sent exactly one observation that is either returned or
\* still queued, the thread is never more than one decision ahead of the
\* caller, and no decision is answered before its observation was returned.
C1_ObservationsFollowDecisions ==
  /\ lastRet.k = "obs" => lastRet.d = nReturned
  /\ nEmitted - nReturned \in {0, 1}
  /\ Cardinality(ObsQueued) = nEmitted - nReturned
  /\ \A i \in ObsQueued : obsQ[i].d = nEmitted
  /\ consumed.d <= nReturned
C1_Witness ==
  /\ kind = "multi" /\ players >= 2
  /\ lastRet.k = "obs" /\ lastRet.via = "play" /\ nReturned = MaxDecisions
  /\ consumed.d = MaxDecisions - 1

\* C2 (as claimed): one terminal sentinel per finished game, so that a start()
\* issued by a protocol-following caller never returns a terminal sentinel.
C2_OneSentinelPerGame ==
  /\ \A g \in 1 .. MaxGames : Cardinality(SentinelsQueued(g)) <= 1
  /\ ~(lastRet.k = "term" /\ lastRet.via = "start")

\* C3 (as claimed): whatever the caller does, the action the thread takes to
\* answer a decision was sent after the caller had received that decision's
\* observation.
C3_ActionAnswersSeenObservation == consumed.seen >= consumed.d

\* C4: SingleEnvironment, protocol-following caller, no engine fault: the two
\* threads are never both blocked, every call returns, every game yields a
\* result with a score >= 0 and a boolean win flag.
C4_SingleRoundTrip ==
  /\ [](~(CallerBlocked /\ SimBlocked))
  /\ [](lastResult.k = "single"
          => lastResult.vps[1] >= 0 /\ lastResult.win \in BOOLEAN)
  /\ (callerPc # "idle") ~> (callerPc = "idle")
  /\ <>(nResults = MaxGames)
C4_Witness ==
  /\ kind = "single" /\ opponents >= 1
  /\ nResults = MaxGames /\ callerPc = "idle" /\ nReturned >= MaxGames + 1

\* C5: MultiEnvironment: while the thread waits for an action, the seatId of
\* the observation of that decision is the index of the action sender whose
\* receiver the thread waits on, whatever the seating order; and once play()
\* has sent for the seatId it received, the thread is not left waiting.
NewestObs ==
  {obsQ[i].id : i \in {j \in ObsQueued : obsQ[j].d = nEmitted}}
    \cup (IF lastRet.k = "obs" /\ lastRet.d = nEmitted THEN {lastRet.id} ELSE {})
C5_SeatIdIsActionChannel ==
  kind = "multi" /\ simPc = "await" =>
    /\ NewestObs # {}
    /\ \A id \in NewestObs : PlaySender(id) = waiting
    /\ callerPc = "play" /\ ObsQueued = {} => actionQ[waiting] # <<>>
C5_Witness ==
  /\ kind = "multi" /\ players = MaxPlayers /\ simPc = "await"
  /\ order[1] # 0 /\ waiting = order[1] /\ waiting = players - 1
  /\ callerPc = "play" /\ actionQ[waiting] # <<>>

\* C6 (as claimed): MultiEnvironment(players=3): a play() for a seat that the
\* last returned observation does not address returns an error and leaves no
\* action queued.
C6_WrongSeatRejected ==
  kind = "multi" /\ players = 3 /\ lastCall.op = "play" /\ lastCall.wrong =>
    /\ callerPc = "idle" /\ lastRet.k = "err"
    /\ actionQ[PlaySender(lastCall.seat)] = <<>>

\* C7: once the simulation thread has terminated abnormally, a call never
\* waits for ever: inside start()/play()/result() the receive can always
\* complete (a message queued before the termination, or an error), and a
\* play() issued after the termination has failed without waiting.
C7_NoHangAfterFault ==
  simPc = "crashed" =>
    /\ callerPc \in {"start", "play"} => ENABLED ObsReturn
    /\ callerPc = "result" => ENABLED ResultRecv
    /\ lastCall.op = "play" /\ lastCall.crashed =>
         callerPc = "idle" /\ lastRet.k = "err"
C7_Witness ==
  /\ simPc = "crashed" /\ callerPc = "idle"
  /\ lastCall.op = "start" /\ lastCall.crashed
  /\ lastRet.k = "err" /\ lastRet.via = "start" /\ poisonedObs

\* C8: MultiEnvironment.result() reads seat 0 .. players-1 in that order and
\* returns the highest-numbered seat whose result carries the win flag, seat 0
\* when none does.
Flagged(wins) == {i \in 0 .. Len(wins) - 1 : wins[i + 1]}
MaxOf(S) == CHOOSE x \in S : \A y \in S : y <= x
C8_WinnerIsLastFlagged ==
  lastResult.k = "multi" =>
    /\ Len(lastResult.wins) = players /\ Len(lastResult.vps) = players
    /\ lastResult.winner =
         IF Flagged(lastResult.wins) = {} THEN 0 ELSE MaxOf(Flagged(lastResult.wins))
C8_Witness ==
  /\ lastResult.k = "multi" /\ players = MaxPlayers
  /\ Flagged(lastResult.wins) = {1, players - 1}
  /\ lastResult.winner = players - 1

\* C9: every record start()/play() returns has 6 fields when the format
\* includes hidden and 5 when it does not, terminal or not, and the conversion
\* never fails on a missing hidden buffer.
C9_HiddenFieldFollowsFormat ==
  /\ lastRet.k \in {"obs", "term"} =>
       lastRet.len = IF include_hidden THEN 6 ELSE 5
  /\ lastRet.k # "err" /\ ~poisonedObs
C9_Witness ==
  /\ include_hidden /\ lastRet.k = "obs" /\ lastRet.len = 6 /\ nReturned >= 2

\* C10: the flat vector built for observer p does not depend on how an
\* opponent's resource cards or held development cards are split across the
\* types, nor on an opponent's newly acquired development cards: it equals the
\* flat vector of the state in which every opponent's cards are gathered on
\* the first type and the new cards are removed, so two states that differ
\* only in those details have the same flat vector. Every other split of
\* p's own resources or development cards changes p's flat vector.
CardVecs(max) == [ResourceIds -> 0 .. max]
SameTotal(v) == {w \in CardVecs(Total(v)) : Total(w) = Total(v)}
Gathered(v) == [i \in ResourceIds |-> IF i = 0 THEN Total(v) ELSE 0]
FlatOf(state) == GenerateFlat(encIn.player, state, encIn.phase)
WithResources(q, w) == [encIn.state EXCEPT !.hands[q].resources = w]
WithDevCards(q, w) == [encIn.state EXCEPT !.hands[q].development_cards = w]
OpponentsGathered ==
  [encIn.state EXCEPT !.hands =
     [q \in EncPlayers |->
        IF q = encIn.player THEN encIn.state.hands[q]
        ELSE [encIn.state.hands[q] EXCEPT
                !.resources = Gathered(@),
                !.development_cards = Gathered(@),
                !.new_development_cards = EmptyHand.new_development_cards]]]
C10_FlatMasksOpponents ==
  encDone =>
    LET st == encIn.state
        p == encIn.player
    IN /\ encOut.flat.ok
       /\ encOut.flat = FlatOf(OpponentsGathered)
       /\ \A w \in SameTotal(st.hands[p].resources) \ {st.hands[p].resources} :
            FlatOf(WithResources(p, w)) # encOut.flat
       /\ \A w \in SameTotal(st.hands[p].development_cards)
                     \ {st.hands[p].development_cards} :
            FlatOf(WithDevCards(p, w)) # encOut.flat
C10_Witness ==
  /\ encDone /\ encIn.state.player_count = 3 /\ encIn.player = 1
  /\ encIn.state.hands[0].resources[0] = 1
  /\ encIn.state.hands[0].resources[3] = 1
  /\ encOut.flat.ok /\ encOut.flat.a[35] = 2

\* C11 (as claimed): with hidden visibility configured, the hidden buffer shows
\* the composition of every opponent's hand: another split of an opponent's
\* resource cards, or of its held development cards, with the same total
\* gives another hidden buffer.
HiddenOf(state) == GenerateHidden(encIn.player, state, encIn.phase)
C11_HiddenShowsComposition ==
  encDone /\ encOut.has_hidden =>
    \A q \in EncPlayers \ {encIn.player} :
      LET hand == encIn.state.hands[q] IN
        /\ \A w \in SameTotal(hand.resources) \ {hand.resources} :
             HiddenOf(WithResources(q, w)) # encOut.hidden
        /\ \A w \in SameTotal(hand.development_cards) \ {hand.development_cards} :
             HiddenOf(WithDevCards(q, w)) # encOut.hidden

\* C12: with hidden visibility configured, hidden has (P-1)*27 cells; for the
\* opponent at relative offset k the eight cells from (k-1)*27 repeat the eight
\* cells of flat from 19+8k, and every other cell of hidden is 0.
HiddenMirror(P) == {(k - 1) * 27 + j : k \in 1 .. P - 1, j \in 0 .. 7}
C12_HiddenRepeatsAggregates ==
  encDone /\ encOut.has_hidden =>
    LET P == encIn.state.player_count
        h == encOut.hidden
        f == encOut.flat
    IN /\ h.ok /\ f.ok
       /\ DOMAIN h.a = 0 .. (P - 1) * 27 - 1
       /\ \A k \in 1 .. P - 1 : \A j \in 0 .. 7 :
            h.a[(k - 1) * 27 + j] = f.a[19 + 8 * k + j]
       /\ \A i \in DOMAIN h.a \ HiddenMirror(P) : h.a[i] = 0
C12_Witness ==
  /\ encDone /\ encOut.has_hidden /\ encIn.state.player_count = 3
  /\ encOut.hidden.ok /\ encOut.hidden.a[27] = 1 /\ encOut.hidden.a[31] = 1
  /\ encOut.flat.a[35] = 1 /\ encOut.flat.a[39] = 1

\* C13: flat has 29+8P cells: the addressee's 27 cells at [0,27), the eight
\* aggregate cells of the opponent at relative offset k at [19+8k, 27+8k), six
\* bank cells at [19+8P, 25+8P) and four phase cells at [25+8P, 29+8P); the
\* blocks are pairwise disjoint and cover the vector, each cell holds the
\* value of its block, and no write falls outside the vector.
OwnCells(hand, lr, la) ==
  [j \in 0 .. 26 |->
     IF j < 5 THEN hand.resources[j]
     ELSE IF j = 5 THEN hand.road_pieces
     ELSE IF j = 6 THEN hand.settlement_pieces
     ELSE IF j = 7 THEN hand.city_pieces
     ELSE IF j = 8 THEN hand.knights
     ELSE IF j < 14 THEN hand.development_cards[j - 9]
     ELSE IF j < 19 THEN hand.new_development_cards[j - 14]
     ELSE IF j < 25 THEN Flag(hand.harbor[j - 19])
     ELSE IF j = 25 THEN Flag(lr) ELSE Flag(la)]
AggregateCells(hand, lr, la) ==
  [j \in 0 .. 7 |->
     IF j = 0 THEN Total(hand.resources)
     ELSE IF j = 1 THEN hand.road_pieces
     ELSE IF j = 2 THEN hand.settlement_pieces
     ELSE IF j = 3 THEN hand.city_pieces
     ELSE IF j = 4 THEN hand.knights
     ELSE IF j = 5 THEN Total(hand.development_cards)
     ELSE IF j = 6 THEN Flag(lr) ELSE Flag(la)]
PhaseCells(phase) ==
  [j \in 0 .. 3 |->
     IF ~phase.turn THEN 0
     ELSE IF j = 0 THEN Flag(phase.turn_phase = "PreRoll")
     ELSE IF j = 1 THEN Flag(phase.development_phase = "Ready")
     ELSE IF j = 2
       THEN (IF phase.development_phase = "RoadBuildingActive"
               THEN (IF phase.two_left THEN 2 ELSE 1) ELSE 0)
       ELSE (IF phase.development_phase = "YearOfPlentyActive"
               THEN (IF phase.two_left THEN 2 ELSE 1) ELSE 0)]
FlatBlocks(P) ==
  <<0 .. 26>> \o [k \in 1 .. P - 1 |-> (19 + 8 * k) .. (26 + 8 * k)]
    \o <<(19 + 8 * P) .. (24 + 8 * P), (25 + 8 * P) .. (28 + 8 * P)>>
C13_FlatLayout ==
  encDone =>
    LET st == encIn.state
        p == encIn.player
        P == st.player_count
        f == encOut.flat
        blocks == FlatBlocks(P)
    IN /\ f.ok
       /\ DOMAIN f.a = 0 .. 29 + 8 * P - 1
       /\ \A a, b \in DOMAIN blocks : a # b => blocks[a] \cap blocks[b] = {}
       /\ UNION {blocks[a] : a \in DOMAIN blocks} = DOMAIN f.a
       /\ \A j \in 0 .. 26 :
            f.a[j] = OwnCells(st.hands[p], st.longest_road = p, st.largest_army = p)[j]
       /\ \A k \in 1 .. P - 1 : \A j \in 0 .. 7 :
            LET q == OffsetToPlayerId(p, k, P) IN
              f.a[19 + 8 * k + j] =
                AggregateCells(st.hands[q], st.longest_road = q, st.largest_army = q)[j]
       /\ \A r \in ResourceIds : f.a[19 + 8 * P + r] = st.bank_resources[r]
       /\ f.a[24 + 8 * P] = Total(st.development_cards)
       /\ \A j \in 0 .. 3 : f.a[25 + 8 * P + j] = PhaseCells(encIn.phase)[j]
C13_Witness ==
  /\ encDone /\ encIn.state.player_count = 3 /\ encIn.player = 2
  /\ encIn.state.largest_army = 2 /\ encIn.phase.turn
  /\ encIn.phase.turn_phase = "PreRoll"
  /\ encOut.flat.ok /\ encOut.flat.a[26] = 1 /\ encOut.flat.a[49] = 1

\* C14: renaming every seat s to (s + c) mod P in the state (hands, road and
\* building owners, holders of the two awards) and the observer to
\* (observer + c) mod P leaves board, flat and hidden unchanged, for every c.
RotSeat(s, c, P) == IF s = NonePlayer THEN NonePlayer ELSE (s + c) % P
Rotated(state, c) ==
  LET P == state.player_count IN
    [state EXCEPT
       !.hands = [t \in 0 .. P - 1 |-> state.hands[(t + P - c) % P]],
       !.longest_road = RotSeat(state.longest_road, c, P),
       !.largest_army = RotSeat(state.largest_army, c, P),
       !.paths = [x \in DOMAIN state.paths |-> RotSeat(state.paths[x], c, P)],
       !.intersections =
          [x \in DOMAIN state.intersections |->
             [state.intersections[x] EXCEPT !.owner = RotSeat(@, c, P)]]]
C14_RotationInvariant ==
  encDone =>
    LET P == encIn.state.player_count IN
      \A c \in 1 .. P - 1 :
        LET o == NewArray(encIn.fmt_hidden, (encIn.player + c) % P,
                          Rotated(encIn.state, c), encIn.phase, encIn.mask)
        IN /\ o.board = encOut.board
           /\ o.flat = encOut.flat
           /\ o.hidden = encOut.hidden
C14_Witness ==
  /\ encDone /\ encIn.state.player_count = 3 /\ encIn.player = 1
  /\ encIn.state.paths[2] = 0 /\ encIn.state.hands[2].knights = 1
  /\ encOut.board.ok /\ encOut.board.a[Cell(2, 9, 19)] = 1
  /\ encOut.flat.a[31] = 1

\* C15: every relative index of an observation is counted from its
\* addressee p: the seat at relative index k is (p + k) mod P in the road
\* channel 7+k, in the building channel 13+P+k, in flat (k = 0: the
\* addressee's own hand at [0,27); k >= 1: the block at 19+8k) and in the
\* hidden block k.
C15_RelativeToAddressee ==
  encDone =>
    LET st == encIn.state
        p == encIn.player
        P == st.player_count
        C == Channels(st)
        b == encOut.board
        f == encOut.flat
        h == encOut.hidden
    IN /\ b.ok /\ f.ok /\ h.ok
       /\ \A j \in 0 .. 26 :
            f.a[j] = OwnCells(st.hands[p], st.longest_road = p, st.largest_army = p)[j]
       /\ \A k \in 0 .. P - 1 :
            LET q == (p + k) % P
                agg == AggregateCells(st.hands[q], st.longest_road = q,
                                      st.largest_army = q)
            IN /\ \A i \in DOMAIN LayoutPaths :
                    b.a[Cell(LayoutPaths[i], 7 + k, C)]
                      = Flag(st.paths[LayoutPaths[i]] = q)
               /\ \A i \in DOMAIN LayoutIntersections :
                    LET x == st.intersections[LayoutIntersections[i]] IN
                      b.a[Cell(LayoutIntersections[i], 13 + P + k, C)]
                        = IF x.owner = q THEN (IF x.is_city THEN 2 ELSE 1) ELSE 0
               /\ k >= 1 => \A j \in 0 .. 7 : f.a[19 + 8 * k + j] = agg[j]
               /\ k >= 1 /\ encOut.has_hidden =>
                    \A j \in 0 .. 7 : h.a[(k - 1) * 27 + j] = agg[j]
C15_Witness ==
  /\ encDone /\ encOut.has_hidden /\ encIn.state.player_count = 3
  /\ encIn.player = 2
  /\ encIn.state.intersections[5] = [owner |-> 1, is_city |-> TRUE]
  /\ encOut.board.ok /\ encOut.board.a[Cell(5, 18, 19)] = 2
  /\ encOut.via = "new_array"

\* C16: the actions field of the observation built by new_array or by
\* new_python_array is the legal-action mask passed in, element for element
\* and of the same length.
C16_ActionsPassThrough ==
  encDone =>
    /\ DOMAIN encOut.actions = DOMAIN encIn.mask
    /\ \A i \in DOMAIN encIn.mask : encOut.actions[i] = encIn.mask[i]
C16_Witness ==
  /\ encDone /\ encOut.via = "new_python_array"
  /\ encIn.mask = <<FALSE, TRUE>> /\ encOut.actions = <<FALSE, TRUE>>
  /\ encIn.state.player_count = 2

\* C17: under correct usage at most one non-terminal observation is
\* unanswered, every action channel holds at most one pending action, and an
\* observation is published only after the action answering the previous
\* decision has been consumed: every observation in existence is that of a
\* decision at most one past the last answered one.
C17_StrictAlternation ==
  /\ nEmitted - consumed.d \in {0, 1}
  /\ \A s \in Seats : Len(actionQ[s]) <= 1
  /\ Cardinality({s \in Seats : actionQ[s] # <<>>}) <= 1
  /\ \A i \in ObsQueued : obsQ[i].d <= consumed.d + 1
  /\ simPc = "await" <=> nEmitted = consumed.d + 1
C17_Witness ==
  /\ kind = "single" /\ gameNo = MaxGames /\ simPc = "await"
  /\ nEmitted = consumed.d + 1 /\ consumed.d >= 2
  /\ Len(actionQ[waiting]) = 1 /\ callerPc = "play"

\* C18: the simulation thread cycles SettingUp ("setup") -> InProgress
\* ("advance", "await") -> Finished ("results") -> SettingUp: it changes
\* phase only along that cycle (or by a fault), a finished game is followed by
\* the setup of the next one whatever the caller has or has not called, the
\* thread has a next step or waits for an action as long as no fault occurs
\* (up to MaxGames games), games are numbered one after the other, and the
\* channels stay those created by new().
LifecycleSteps ==
  {<<"setup", "advance">>, <<"advance", "await">>, <<"await", "advance">>,
   <<"advance", "results">>, <<"results", "setup">>,
   <<"advance", "crashed">>, <<"results", "crashed">>}
SimCanStep ==
  \/ ENABLED SetupGame \/ ENABLED ScriptedMove \/ ENABLED PickActionPublish
  \/ ENABLED GameOver \/ ENABLED PlayerResultsFlag
C18_Lifecycle ==
  /\ [][simPc' # simPc => <<simPc, simPc'>> \in LifecycleSteps]_vars
  /\ [][gameNo' # gameNo => simPc = "setup" /\ gameNo' = gameNo + 1]_vars
  /\ [](simPc = "setup" /\ gameNo < MaxGames => ENABLED SetupGame)
  /\ [](simPc \notin {"crashed", "await"} /\ ~(simPc = "setup" /\ gameNo = MaxGames)
          => SimCanStep)
  /\ [](DOMAIN actionQ = Seats /\ DOMAIN resultQ = Seats)
C18_Witness ==
  /\ gameNo = MaxGames /\ simPc = "await" /\ nResults = 0
  /\ callerPc = "idle" /\ lastRet.k = "term" /\ lastRet.g = 1
  /\ lastCall.op = "play" /\ misuses = 0

\* C19: the simulation thread waits only for an action: publishing an
\* observation, a terminal sentinel or a result is always possible, whatever
\* is still unread in the channels; and the caller waits only inside its
\* receives: the send of play() is always possible.
C19_OnlyActionWaitSuspends ==
  /\ simPc = "advance" /\ turn = 0 /\ nDec < MaxDecisions => ENABLED PickActionPublish
  /\ simPc = "advance" /\ turn > 0 => ENABLED ScriptedMove
  /\ simPc = "results" => ENABLED PlayerResultsFlag
  /\ callerPc = "idle" /\ (proto \in {"play", "any"} \/ misuses < MaxMisuse)
       => ENABLED CallPlay
C19_Witness ==
  /\ kind = "multi" /\ players = MaxPlayers /\ simPc = "results" /\ finIdx = players
  /\ Len(obsQ) >= players /\ nResults = 0 /\ gameNo = MaxGames
  /\ \E s \in Seats : Len(resultQ[s]) = MaxGames

\* C20: every seat's results are queued in the order the games finish and
\* read once each: the k-th result() that returns gives the result of the
\* k-th finished game; in MultiEnvironment the score vector has one entry per
\* seat, entry i read from seat i's channel, all of the same game.
C20_ResultsInGameOrder ==
  /\ \A s \in Seats : \A i \in DOMAIN resultQ[s] :
       /\ resultQ[s][i].from = s
       /\ i > 1 => resultQ[s][i].g = resultQ[s][i - 1].g + 1
  /\ lastResult.k \in {"single", "multi"} =>
       \A i \in DOMAIN lastResult.gs : lastResult.gs[i] = nResults
  /\ lastResult.k = "single" => Len(lastResult.gs) = 1 /\ lastResult.from = <<0>>
  /\ lastResult.k = "multi" =>
       /\ Len(lastResult.vps) = players /\ Len(lastResult.gs) = players
       /\ lastResult.from = [i \in 1 .. players |-> i - 1]
C20_Witness ==
  /\ kind = "multi" /\ players = 2 /\ lastResult.k = "multi"
  /\ nResults = MaxGames /\ lastResult.gs = <<MaxGames, MaxGames>>

====
